---- MODULE Spec2Model ----
(***************************************************************************)
(* Translation / validation / repair pipeline of the AQL query assistant.  *)
(*                                                                         *)
(* Two request handlers run the same repair loop: the /query form handler  *)
(* (modules/core/routes.py, query) and the /generate_aql AJAX handler      *)
(* (modules/core/routes.py, generate_aql).  A session is one request; its  *)
(* state is the handler's local variables.  The Translator (LLM provider)  *)
(* and the Validator (remote data service) are external: their answers    *)
(* are drawn from small sets.                                              *)
(*                                                                         *)
(* Queries are abstract texts 1..NumQueries; 0 is the empty string.        *)
(* Errors are abstract (error_message, error_details) pairs 1..NumErrors;  *)
(* 0 is None (the outcome of a valid query).  One more error stands for    *)
(* the message validate_query builds when the request itself failed.       *)
(*                                                                         *)
(* Three components work on the text of a query and have specifications    *)
(* of their own: the rule rewriter (aql_validator.py, SpecRewrite), the    *)
(* limit clause and date preprocessing (api.py, query_preprocessor.py,     *)
(* SpecPrep) and the translation cache (database.py, SpecCache).  There a  *)
(* text is a sequence of tokens.                                           *)
(*                                                                         *)
(* The class of the provider is left open in Spec and SpecPair; in         *)
(* SpecProviders it is known, and fix_invalid_query is the method of that  *)
(* class (llm/base.py or llm/claude.py), with the rule table seen on the   *)
(* abstract texts.                                                         *)
(***************************************************************************)
EXTENDS Integers, Sequences, FiniteSets, TLC

\* ---- bounds of the model ------------------------------------------------
NumQueries == 2
NumErrors == 1
MaxTokens == 4
MaxStatementTokens == 5
MaxDateTokens == 3
NumQuestions == 2
MaxRequests == 2
MaxTicks == 3

\* ---- program constants --------------------------------------------------
\* max_retries = 5 and validation_status["maxAttempts"] = 5
max_retries == 5
maxAttempts == 5

Sessions == {1, 2}
Sites == {"query", "generate_aql"}
EmptyQuery == 0
Queries == 1..NumQueries
Candidates == {EmptyQuery} \cup Queries
NoError == 0
Errors == 1..NumErrors

\* f"Error during query validation: {str(e)}", with empty error_details
TransportError == NumErrors + 1

\* f"Error fixing query: {str(e)}" / f"Failed to fix query: {str(e)}"
FixFailedExplanation == -1

VARIABLES sess, validator, network, rewriter, prep, cache

vars == <<sess, validator, network, rewriter, prep, cache>>

\* ---- messages -----------------------------------------------------------
\* A message text is kept as its format and the values formatted into it.
Msg(kind, n, err, q) == [kind |-> kind, n |-> n, err |-> err, q |-> q]

NoMessage == Msg("none", 0, 0, 0)

\* "Query validated successfully"
MsgValidated == Msg("validated", 0, 0, 0)

\* the Validator's error_message shown as it is
MsgError(err) == Msg("error", 0, err, 0)

\* f"Attempt {retry_count} of {max_retries}: Using AI to fix invalid query..."
MsgFixing(n) == Msg("fixing", n, 0, 0)

\* "Query fixed and validated successfully"
MsgFixed == Msg("fixed", 0, 0, 0)

\* f"Fix attempt {retry_count} of {max_retries} failed: {error_message}"
MsgFixFailed(n, err) == Msg("fix_failed", n, err, 0)

\* "AI could not fix the query"
MsgCouldNotFix == Msg("could_not_fix", 0, 0, 0)

\* _format_validation_error(error_message, error_details, query): the error
\* message with a position and tips appended, all computed from its arguments
format_validation_error(err, q) == Msg("friendly", 0, err, q)

\* ---- the handler's local state -------------------------------------------
NoStatus ==
    [status |-> "none", attempts |-> 0, maxAttempts |-> 0, originalQuery |-> 0,
     currentQuery |-> 0, message |-> NoMessage, progress |-> 0]

Idle ==
    [site |-> "none", pc |-> "idle", provider |-> FALSE, api_key |-> FALSE,
     translate_failed |-> FALSE, variant |-> "any", steps |-> <<>>, query |-> 0,
     sanitized_query |-> 0, is_valid |-> FALSE, error |-> NoError,
     retry_count |-> 0, validation_attempts |-> 0, previous_attempts |-> <<>>,
     fixed_query |-> 0, fix_explanation |-> 0,
     validation_status |-> NoStatus, result_query |-> 0,
     validation_fixed |-> FALSE, ended |-> "none", calls |-> <<>>]

\* a request has arrived at a handler and nothing has run yet; provider:
\* get_llm_provider returned an instance; api_key: the credentials of that
\* provider are configured
Fresh(site, provider, api_key) ==
    [Idle EXCEPT !.site = site, !.pc = "start", !.provider = provider,
                 !.api_key = api_key]

\* the request names its provider: variant is the class whose fix_invalid_query
\* runs, "base" (OpenAILLM and OllamaLLM inherit LLMProvider's) or "claude"
\* (ClaudeLLM overrides it); "any" leaves the class open
Variants == {"base", "claude"}

OfVariant(r, variant) == [r EXCEPT !.variant = variant]

\* ---- the log of calls to the external collaborators ----------------------
\* op: "translate", "validate" or "fix"; q: the query passed; cur: the
\* session's currentQuery when the call was made; err, prev: the feedback
\* passed to a fix call; ret: the query a translate or fix call returned, or
\* the error a validate call returned (NoError when the query was accepted);
\* failed: the call ran into its except branch (or its missing-key branch)
Call(op, q, cur, err, prev, ret, failed) ==
    [op |-> op, q |-> q, cur |-> cur, err |-> err, prev |-> prev, ret |-> ret,
     failed |-> failed]

\* ---- pieces of the handlers ----------------------------------------------
\* validation_status = {...} after the first validation
InitialStatus(q, valid, err) ==
    [status |-> IF valid THEN "valid" ELSE "invalid",
     attempts |-> 1,
     maxAttempts |-> maxAttempts,
     originalQuery |-> q,
     currentQuery |-> q,
     message |-> IF valid THEN MsgValidated ELSE MsgError(err),
     progress |-> IF valid THEN 75 ELSE 60]

Min(a, b) == IF a <= b THEN a ELSE b

\* the progress at the top of the while body does not grow with the passes
LoopTopStatusFlat(vs, validation_attempts, retry_count) ==
    [vs EXCEPT !.attempts = Min(validation_attempts + retry_count, vs.maxAttempts),
               !.status = "fixing",
               !.message = MsgFixing(retry_count),
               !.progress = 60]

\* the four assignments at the top of the while body
LoopTopStatus(vs, validation_attempts, retry_count) ==
    [vs EXCEPT !.attempts = Min(validation_attempts + retry_count, vs.maxAttempts),
               !.status = "fixing",
               !.message = MsgFixing(retry_count),
               !.progress = 60 + (retry_count * 3)]

\* the feedback is built without the attempts made so far
FeedbackWithoutHistory(sanitized_query, err, previous_attempts) ==
    [original_query |-> sanitized_query, error |-> err, previous_attempts |-> <<>>]

\* feedback = {"original_query": ..., "error": ..., "previous_attempts": ...}
Feedback(sanitized_query, err, previous_attempts) ==
    [original_query |-> sanitized_query, error |-> err,
     previous_attempts |-> previous_attempts]

\* the explanation a provider returns with a fixed query is a text built from
\* the error it was given
FixExplanation(err) == err

\* the attempt is not appended to the history
RecordAttemptSkipped(previous_attempts, retry_count, fixed_query, fix_explanation, err) ==
    previous_attempts

\* previous_attempts.append({...}), run right after the fix call returns
RecordAttempt(previous_attempts, retry_count, fixed_query, fix_explanation, err) ==
    Append(previous_attempts,
           [attempt |-> retry_count, query |-> fixed_query,
            explanation |-> fix_explanation, error |-> err])

\* if fixed_query and fixed_query != sanitized_query
FixIsNew(fixed_query, sanitized_query) ==
    fixed_query # EmptyQuery /\ fixed_query # sanitized_query

\* neither handler assigns the fixed query to sanitized_query
SanitizedAfterFixKept(site, sanitized_query, fixed_query) == sanitized_query

\* the query the next fix call and the next comparison use: generate_aql
\* assigns sanitized_query = fixed_query before validating, query does not
SanitizedAfterFix(site, sanitized_query, fixed_query) ==
    IF site = "generate_aql" THEN fixed_query ELSE sanitized_query

\* the status is not updated after the validation of a fixed query
AfterFixStatusKept(vs, valid, retry_count, err) ==
    [vs EXCEPT !.message = IF valid THEN MsgFixed ELSE MsgFixFailed(retry_count, err),
               !.progress = IF valid THEN 90 ELSE 60 + (retry_count * 3)]

\* the three assignments after the validation of a fixed query
AfterFixStatus(vs, valid, retry_count, err) ==
    [vs EXCEPT !.status = IF valid THEN "valid" ELSE "invalid",
               !.message = IF valid THEN MsgFixed ELSE MsgFixFailed(retry_count, err),
               !.progress = IF valid THEN 90 ELSE 60 + (retry_count * 3)]

\* the loop test with the bound off by one
LoopContinuesOffByOne(valid, retry_count) == ~valid /\ retry_count <= max_retries

\* while not is_valid and retry_count < max_retries
LoopContinues(valid, retry_count) == ~valid /\ retry_count < max_retries

\* the else branch of the loop: the fix brought nothing new
StallStatus(vs) == [vs EXCEPT !.message = MsgCouldNotFix]

\* after the loop: query overwrites status and message of a session that is
\* still invalid; generate_aql returns validation_status as the loop left it
FinalStatus(site, vs, valid, err, sanitized_query) ==
    IF site = "query" /\ ~valid
    THEN [vs EXCEPT !.status = "failed",
                    !.message = format_validation_error(err, sanitized_query)]
    ELSE vs

\* ---- the rule-based rewriter (AQLValidator.suggest_fixes) -----------------
\* A query text is a sequence of tokens.  A word token is a run of \w
\* characters; " " is a run of whitespace.
InputTokens == {"YEAR", "MONTH", "DAY", "x", "(", ")", " ", "GROUP BY"}

WordTokens == {"YEAR", "MONTH", "DAY", "x", "SUBSTRING", "1", "2", "4", "6", "9"}

Texts == UNION {[1..n -> InputTokens] : n \in 0..MaxTokens}

\* (pattern, replacement): the patterns that have a replacement are
\* KEYWORD\s*\(\s*(\w+)\s*\) and their replacements SUBSTRING(\1, a, b),
\* kept as the keyword and <<a, b>>; <<>> is the replacement None
UNSUPPORTED_PATTERNS ==
    << [pattern |-> "YEAR",           replacement |-> <<"1", "4">>],
       [pattern |-> "MONTH",          replacement |-> <<"6", "2">>],
       [pattern |-> "DAY",            replacement |-> <<"9", "2">>],
       [pattern |-> "DATE_ADD(",      replacement |-> <<>>],
       [pattern |-> "DATE_SUB(",      replacement |-> <<>>],
       [pattern |-> "INTERVAL",       replacement |-> <<>>],
       [pattern |-> "COUNT(DISTINCT", replacement |-> <<>>] >>

\* the first position at or after i that holds no whitespace
RECURSIVE SkipSpaces(_, _)
SkipSpaces(t, i) ==
    IF i <= Len(t) /\ t[i] = " " THEN SkipSpaces(t, i + 1) ELSE i

\* the first position at or after i that holds no word token
RECURSIVE WordRun(_, _)
WordRun(t, i) ==
    IF i <= Len(t) /\ t[i] \in WordTokens THEN WordRun(t, i + 1) ELSE i

\* where the group (\w+) of a match of the pattern at position i begins
CaptureStart(t, i) == SkipSpaces(t, SkipSpaces(t, i + 1) + 1)

\* the position of the closing parenthesis of a match of
\* KEYWORD\s*\(\s*(\w+)\s*\) that begins at position i, 0 when there is none
MatchEnd(keyword, t, i) ==
    LET a == SkipSpaces(t, i + 1)
        b == CaptureStart(t, i)
        c == WordRun(t, b)
        d == SkipSpaces(t, c)
    IN IF /\ t[i] = keyword
          /\ a <= Len(t) /\ t[a] = "("
          /\ c > b
          /\ d <= Len(t) /\ t[d] = ")"
       THEN d ELSE 0

\* a template that gives the matched call back
ExpandToCall(replacement, group) == <<"YEAR", "(">> \o group \o <<")">>

\* the replacement template SUBSTRING(\1, a, b) filled with the group
Expand(replacement, group) ==
    <<"SUBSTRING", "(">> \o group
        \o <<",", " ", replacement[1], ",", " ", replacement[2], ")">>

\* len(re.findall(pattern, text, re.IGNORECASE)), counted from position i
RECURSIVE FindAllCount(_, _, _)
FindAllCount(keyword, t, i) ==
    IF i > Len(t) THEN 0
    ELSE IF MatchEnd(keyword, t, i) # 0
         THEN 1 + FindAllCount(keyword, t, MatchEnd(keyword, t, i) + 1)
         ELSE FindAllCount(keyword, t, i + 1)

\* re.sub(pattern, replacement, text, flags=re.IGNORECASE), from position i
RECURSIVE ReSub(_, _, _)
ReSub(rule, t, i) ==
    IF i > Len(t) THEN <<>>
    ELSE IF MatchEnd(rule.pattern, t, i) # 0
         THEN Expand(rule.replacement,
                     SubSeq(t, CaptureStart(t, i), WordRun(t, CaptureStart(t, i)) - 1))
                  \o ReSub(rule, t, MatchEnd(rule.pattern, t, i) + 1)
         ELSE <<t[i]>> \o ReSub(rule, t, i + 1)

\* the change descriptions, and the text returned when there is none
ChangeReplaced(n, rule) == [kind |-> "replaced", n |-> n, pattern |-> rule.pattern]

ChangeGroupBy == [kind |-> "group_by", n |-> 0, pattern |-> ""]

ChangeToken == [kind |-> "token", n |-> 0, pattern |-> ""]

NoAutomaticFixes == <<[kind |-> "none", n |-> 0, pattern |-> ""]>>

\* the first loop of suggest_fixes, from rule k on
RECURSIVE ApplyRules(_, _, _)
ApplyRules(fixed_query, changes, k) ==
    IF k > Len(UNSUPPORTED_PATTERNS) THEN [query |-> fixed_query, changes |-> changes]
    ELSE LET rule == UNSUPPORTED_PATTERNS[k]
             matches_count == IF rule.replacement # <<>>
                              THEN FindAllCount(rule.pattern, fixed_query, 1)
                              ELSE 0
         IN IF matches_count > 0
            THEN ApplyRules(ReSub(rule, fixed_query, 1),
                            Append(changes, ChangeReplaced(matches_count, rule)),
                            k + 1)
            ELSE ApplyRules(fixed_query, changes, k + 1)

\* GROUP\s+BY\s+(.*?)(?:ORDER\s+BY|HAVING|$): the clause ends at the first
\* of these, or at the end of the text
Terminators == {"ORDER BY", "HAVING"}

\* the position of the first GROUP BY that whitespace follows, at or after
\* i; 0 when there is none
RECURSIVE GroupByStart(_, _)
GroupByStart(t, i) ==
    IF i >= Len(t) THEN 0
    ELSE IF t[i] = "GROUP BY" /\ t[i + 1] = " " THEN i
    ELSE GroupByStart(t, i + 1)

\* the position of the first terminator at or after i, Len(t) + 1 when there
\* is none
RECURSIVE ClauseEnd(_, _)
ClauseEnd(t, i) ==
    IF i > Len(t) THEN i
    ELSE IF t[i] \in Terminators THEN i
    ELSE ClauseEnd(t, i + 1)

\* str.strip() of a run of tokens that begins with no whitespace
RECURSIVE Strip(_)
Strip(t) ==
    IF t # <<>> /\ t[Len(t)] = " " THEN Strip(SubSeq(t, 1, Len(t) - 1)) ELSE t

\* the first occurrence alone is replaced
StrReplaceOnce(t, old, new, i) ==
    LET At(j) == j + Len(old) - 1 <= Len(t) /\ SubSeq(t, j, j + Len(old) - 1) = old
        hits  == {j \in i..Len(t) : At(j)}
        j     == CHOOSE h \in hits : \A g \in hits : h <= g
    IN IF hits = {} THEN SubSeq(t, i, Len(t))
       ELSE SubSeq(t, i, j - 1) \o new \o SubSeq(t, j + Len(old), Len(t))

\* text.replace(old, new), from position i
RECURSIVE StrReplace(_, _, _, _)
StrReplace(t, old, new, i) ==
    IF i > Len(t) THEN <<>>
    ELSE IF i + Len(old) - 1 <= Len(t) /\ SubSeq(t, i, i + Len(old) - 1) = old
         THEN new \o StrReplace(t, old, new, i + Len(old))
         ELSE <<t[i]>> \o StrReplace(t, old, new, i + 1)

\* the loop over the rules inside "if group_by_match", from rule k on
RECURSIVE FixGroupBy(_, _, _, _, _)
FixGroupBy(fixed_query, changes, group_by_section, group_by_columns, k) ==
    IF k > Len(UNSUPPORTED_PATTERNS) THEN [query |-> fixed_query, changes |-> changes]
    ELSE LET rule == UNSUPPORTED_PATTERNS[k] IN
         IF rule.replacement # <<>>
            /\ FindAllCount(rule.pattern, group_by_columns, 1) > 0
         THEN FixGroupBy(StrReplace(fixed_query, group_by_section,
                                    <<"GROUP BY", " ">>
                                        \o ReSub(rule, group_by_columns, 1), 1),
                         Append(changes, ChangeGroupBy),
                         group_by_section, group_by_columns, k + 1)
         ELSE FixGroupBy(fixed_query, changes, group_by_section,
                         group_by_columns, k + 1)

\* the second part of suggest_fixes: the GROUP BY clause of the fixed query
GroupByFixes(fixed_query, changes) ==
    LET start == GroupByStart(fixed_query, 1)
        first == SkipSpaces(fixed_query, start + 1)
        stop  == ClauseEnd(fixed_query, first)
        last  == IF stop > Len(fixed_query) THEN Len(fixed_query) ELSE stop
    IN IF start = 0 THEN [query |-> fixed_query, changes |-> changes]
       ELSE FixGroupBy(fixed_query, changes,
                       SubSeq(fixed_query, start, last),
                       Strip(SubSeq(fixed_query, first, stop - 1)), 1)

\* what the error_details argument can be: None, details whose params name a
\* token and expect a column, and details of any other error
ErrorDetails == {"none", "column", "other"}

\* if error_details and 'params' in error_details: ... if token and expecting
\* and any('column' in str(e).lower() for e in expecting)
ColumnExpected(error_details) == error_details = "column"

\* suggest_fixes(query, error_message, error_details): the query returned
\* and the explanation, which is the list of the changes or the text "No
\* automatic fixes could be applied"
suggest_fixes(query, error_details) ==
    LET a == ApplyRules(query, <<>>, 1)
        b == GroupByFixes(a.query, a.changes)
        changes == IF ColumnExpected(error_details)
                   THEN Append(b.changes, ChangeToken) ELSE b.changes
    IN IF changes = <<>>
       THEN [query |-> query, explanation |-> NoAutomaticFixes]
       ELSE [query |-> b.query, explanation |-> changes]

\* the rewriter under test: the text it was first given and the calls made
NoRewriter == [pc |-> "idle", query |-> <<>>, runs |-> <<>>]

\* one call of suggest_fixes: its arguments and what it returned
Run(query, error_details) ==
    [query |-> query, error_details |-> error_details,
     fixed |-> suggest_fixes(query, error_details).query,
     explanation |-> suggest_fixes(query, error_details).explanation]

\* ---- the query preprocessor (preprocess_query) and the limit clause --------
\* a date is a record of year, month and day
Date(y, m, d) == [year |-> y, month |-> m, day |-> d]

\* DATE_VARIABLES, in the order of the dictionary: the names and the days of
\* their timedelta
DATE_VARIABLES ==
    << [name |-> "{{TODAY}}",               days |-> 0],
       [name |-> "{{DATE_MINUS_30_DAYS}}",  days |-> 30],
       [name |-> "{{DATE_MINUS_90_DAYS}}",  days |-> 90],
       [name |-> "{{DATE_MINUS_6_MONTHS}}", days |-> 182],
       [name |-> "{{DATE_MINUS_1_YEAR}}",   days |-> 365],
       [name |-> "{{DATE_MINUS_2_YEARS}}",  days |-> 730],
       [name |-> "{{DATE_MINUS_3_YEARS}}",  days |-> 1095],
       [name |-> "{{DATE_MINUS_5_YEARS}}",  days |-> 1825],
       [name |-> "{{DATE_MINUS_7_YEARS}}",  days |-> 2555],
       [name |-> "{{DATE_MINUS_10_YEARS}}", days |-> 3650] >>

DateVariableNames == {DATE_VARIABLES[k].name : k \in DOMAIN DATE_VARIABLES}

\* _load_aql_date_expressions(): data/dates.aql does not exist, so the
\* dictionary of AQL expressions is empty
AQL_DATE_EXPRESSIONS == <<>>

\* the calendar of datetime: a date as the number of its day, and back
IsLeap(y) == y % 4 = 0 /\ (y % 100 # 0 \/ y % 400 = 0)

DAYS_IN_MONTH == <<31, 28, 31, 30, 31, 30, 31, 31, 30, 31, 30, 31>>

DAYS_BEFORE_MONTH == <<0, 31, 59, 90, 120, 151, 181, 212, 243, 273, 304, 334>>

DaysInMonth(y, m) == DAYS_IN_MONTH[m] + (IF m = 2 /\ IsLeap(y) THEN 1 ELSE 0)

DaysBeforeYear(y) ==
    ((y - 1) * 365) + ((y - 1) \div 4) - ((y - 1) \div 100) + ((y - 1) \div 400)

DaysBeforeMonth(y, m) == DAYS_BEFORE_MONTH[m] + (IF m > 2 /\ IsLeap(y) THEN 1 ELSE 0)

ToOrdinal(date) ==
    DaysBeforeYear(date.year) + DaysBeforeMonth(date.year, date.month) + date.day

FromOrdinal(ordinal) ==
    LET n0   == ordinal - 1
        n400 == n0 \div 146097
        r400 == n0 % 146097
        n100 == r400 \div 36524
        r100 == r400 % 36524
        n4   == r100 \div 1461
        r4   == r100 % 1461
        n1   == r4 \div 365
        n    == r4 % 365
        year == (n400 * 400) + 1 + (n100 * 100) + (n4 * 4) + n1
        leap == n1 = 3 /\ (n4 # 24 \/ n100 = 3)
        m0   == (n + 50) \div 32
        p0   == DAYS_BEFORE_MONTH[m0] + (IF m0 > 2 /\ leap THEN 1 ELSE 0)
        month == IF p0 > n THEN m0 - 1 ELSE m0
        preceding == IF p0 > n
                     THEN p0 - (DAYS_IN_MONTH[month]
                                + (IF month = 2 /\ leap THEN 1 ELSE 0))
                     ELSE p0
    IN IF n1 = 4 \/ n100 = 4 THEN Date(year - 1, 12, 31)
       ELSE Date(year, month, (n - preceding) + 1)

\* today - DATE_VARIABLES[var_name]
DateMinus(today, days) == FromOrdinal(ToOrdinal(today) - days)

\* two digits, with a leading zero
Pad2(n) == IF n < 10 THEN "0" \o ToString(n) ELSE ToString(n)

\* target_date.strftime('%Y-%m-%d')
strftime(date) ==
    ToString(date.year) \o "-" \o Pad2(date.month) \o "-" \o Pad2(date.day)

\* var_name in processed_query
Contains(t, token) == \E i \in DOMAIN t : t[i] = token

\* the first loop of preprocess_query, over AQL_DATE_EXPRESSIONS from entry k
RECURSIVE ReplaceExpressions(_, _)
ReplaceExpressions(processed_query, k) ==
    IF k > Len(AQL_DATE_EXPRESSIONS) THEN processed_query
    ELSE ReplaceExpressions(
             IF Contains(processed_query, AQL_DATE_EXPRESSIONS[k].name)
             THEN StrReplace(processed_query, <<AQL_DATE_EXPRESSIONS[k].name>>,
                             <<AQL_DATE_EXPRESSIONS[k].expr>>, 1)
             ELSE processed_query,
             k + 1)

\* the second loop of preprocess_query, over remaining_vars from entry k
RECURSIVE ReplaceDates(_, _, _, _)
ReplaceDates(processed_query, remaining_vars, today, k) ==
    IF k > Len(remaining_vars) THEN processed_query
    ELSE ReplaceDates(
             StrReplace(processed_query, <<remaining_vars[k].name>>,
                        <<strftime(DateMinus(today, remaining_vars[k].days))>>, 1),
             remaining_vars, today, k + 1)

\* preprocess_query(query_text), run when datetime.now() is on the day today
preprocess_query(query_text, today) ==
    IF query_text = <<>> THEN query_text
    ELSE LET processed_query == ReplaceExpressions(query_text, 1)
             remaining_vars  == SelectSeq(DATE_VARIABLES,
                                          LAMBDA v : Contains(processed_query, v.name))
         IN ReplaceDates(processed_query, remaining_vars, today, 1)

\* the tokens that hold the letters LIMIT in some case, and those that are
\* a match of LIMIT\s+\d+
LimitWords == {"LIMIT 5", "LIMIT 100", "LIMIT 25000", "unlimited"}

LimitClauses == {"LIMIT 5", "LIMIT 100", "LIMIT 25000"}

\* "LIMIT" in query.upper()
MentionsLimit(query) == \E i \in DOMAIN query : query[i] \in LimitWords

\* re.search(r'LIMIT\s+\d+', query, re.IGNORECASE)
HasLimitClause(query) == \E i \in DOMAIN query : query[i] \in LimitClauses

\* query.split(";")
RECURSIVE Split(_)
Split(t) ==
    IF ~Contains(t, ";") THEN <<t>>
    ELSE LET j == CHOOSE i \in DOMAIN t :
                      t[i] = ";" /\ \A h \in 1..(i - 1) : t[h] # ";"
         IN <<SubSeq(t, 1, j - 1)>> \o Split(SubSeq(t, j + 1, Len(t)))

\* ";".join(statements)
RECURSIVE Join(_)
Join(statements) ==
    IF Len(statements) = 1 THEN statements[1]
    ELSE statements[1] \o <<";">> \o Join(Tail(statements))

\* statements[i].strip() is empty
IsBlank(statement) == \A i \in DOMAIN statement : statement[i] = " "

\* the index of the last statement that is not blank, 0 when all are
LastStatementIndex(statements) ==
    LET full == {i \in DOMAIN statements : ~IsBlank(statements[i])}
    IN IF full = {} THEN 0 ELSE CHOOSE i \in full : \A j \in full : j <= i

\* the branch that adds the clause: to the last statement that is not blank
\* when the query holds a semicolon, else to the query
AddLimit(query, clause) ==
    IF Contains(query, ";")
    THEN LET statements == Split(query)
             last == LastStatementIndex(statements)
         IN IF last # 0
            THEN Join([statements EXCEPT ![last] = @ \o <<" ", clause>>])
            ELSE query
    ELSE query \o <<" ", clause>>

\* execute_query: if "LIMIT" not in query.upper(): ... " LIMIT 25000"
ExecuteLimit(query) ==
    IF ~MentionsLimit(query) THEN AddLimit(query, "LIMIT 25000") ELSE query

\* re.sub(r'LIMIT\s+\d+', f'LIMIT {limit}', query, flags=re.IGNORECASE)
ReplaceLimit(query, clause) ==
    [i \in DOMAIN query |-> IF query[i] \in LimitClauses THEN clause ELSE query[i]]

\* analyze_query_results with limit = 100, its default
AnalyzeLimit(query) ==
    IF ~HasLimitClause(query) THEN AddLimit(query, "LIMIT 100")
    ELSE ReplaceLimit(query, "LIMIT 100")

\* the texts given to the preprocessor: statements with and without limit
\* clauses, and texts with date variables
StatementTokens == {"SELECT", " ", ";", "LIMIT 5", "unlimited"}

DateTokens == DateVariableNames \cup {"SELECT", "{{OTHER}}"}

PrepTexts ==
    UNION {[1..n -> StatementTokens] : n \in 0..MaxStatementTokens}
    \cup UNION {[1..n -> DateTokens] : n \in 0..MaxDateTokens}

\* the days datetime.now() is on
Todays == {Date(2025, 1, 10), Date(2024, 2, 29), Date(2024, 12, 31)}

\* the preprocessor under test: the text, the day, and the calls made
NoPrep == [pc |-> "idle", query |-> <<>>, today |-> Date(1, 1, 1), runs |-> <<>>]

\* one call: the function, the query it was given, the query after the limit
\* clause was seen to, and the query after preprocess_query
PrepRun(op, query, limited, today) ==
    [op |-> op, query |-> query, limited |-> limited,
     preprocessed_query |-> preprocess_query(limited, today)]

\* ---- the translation cache (CredentialStore) ------------------------------
\* cache_key = f"openai_{self.model}_{md5(question)}": one key for each
\* question
CacheKeys == 1..NumQuestions

\* expiry_minutes: int = 60
expiry_minutes == 60

\* no row of query_cache for the key; None as the result of a lookup
NoEntry == [result |-> 0, created_at |-> 0, expires_at |-> 0]

NoTranslation == 0

\* the result is kept in the table until it expires
cache_query_result_kept(entries, key, result, ttl, now) ==
    [entries EXCEPT ![key] = [result |-> result, created_at |-> now,
                              expires_at |-> now + ttl]]

\* cache_query_result(query, result, expiry_minutes): the table after the
\* call, which returns True and writes nothing
cache_query_result(entries, key, result, ttl, now) == entries

\* get_cached_query_result(query): returns None, whatever the table holds
get_cached_query_result(entries, key, now) == NoTranslation

\* the cache and the provider that uses it: the time in minutes, the rows of
\* query_cache, and the translate_to_aql calls made
NoCache ==
    [now |-> 0, ticks |-> 0, entries |-> [k \in CacheKeys |-> NoEntry],
     requests |-> <<>>]

\* ---- the Validator service -----------------------------------------------
\* The handlers only see what api_client.validate_query returns.  The service
\* either may answer each call afresh (fixed = FALSE), or answers by the text
\* of the query alone for the whole run (fixed = TRUE, answer[q]).
Outcomes == {NoError} \cup Errors

AnyValidator == [fixed |-> FALSE, answer |-> [q \in Candidates |-> NoError]]

FixedValidators == {[fixed |-> TRUE, answer |-> f] : f \in [Candidates -> Outcomes]}

\* what the service may answer to a validation request for q
ServiceAnswers(q) == IF validator.fixed THEN {validator.answer[q]} ELSE Outcomes

\* the answers validate_query(q) can return: (True, None, data) is NoError,
\* (False, error_message, error_details) is an error of the service, and
\* (False, "Error during query validation: ...", {}) is what its except
\* branch returns when the request failed
validate_query(q) ==
    ServiceAnswers(q) \cup (IF network = "validator_fails" THEN {TransportError}
                                                            ELSE {})

\* ---- the handlers, one action per step between external calls ------------
\* the list of attempts is one object that all requests append to
SetShared(s, r) ==
    /\ sess' = [t \in Sessions |->
                  IF t = s THEN r
                  ELSE [sess[t] EXCEPT !.previous_attempts = r.previous_attempts]]
    /\ UNCHANGED <<validator, network, rewriter, prep, cache>>

Set(s, r) ==
    sess' = [sess EXCEPT ![s] = r] /\ UNCHANGED <<validator, network, rewriter, prep, cache>>

\* get_llm_provider returned None: generate_aql returns an error at once,
\* query fails on the unset start_time before it reaches the Validator
NoProvider(s) ==
    /\ sess[s].pc = "start"
    /\ ~sess[s].provider
    /\ Set(s, [sess[s] EXCEPT !.pc = "error"])

\* translate_to_aql does not raise: without credentials it returns a result
\* whose query is '' (Claude) or the text "SELECT 'Error: ...' AS error"
\* (OpenAI, Ollama), and when the call to the model fails its except branch
\* returns a result whose query is "SELECT 'Error: ...' AS error"
TranslateResults(api_key, failed) ==
    IF ~failed THEN Candidates
    ELSE IF api_key THEN Queries
    ELSE Candidates

\* whether a call to the provider can end in its failure branch, must, or
\* cannot
MayFail(api_key) ==
    IF api_key THEN (IF network = "translator_fails" THEN BOOLEAN ELSE {FALSE})
    ELSE {TRUE}

\* result = provider.translate_to_aql(question); query = result.get('query', '')
Translate(s) ==
    /\ sess[s].pc = "start"
    /\ sess[s].provider
    /\ \E failed \in MayFail(sess[s].api_key) :
       \E q \in TranslateResults(sess[s].api_key, failed) :
         Set(s, [sess[s] EXCEPT
                   !.query = q,
                   !.sanitized_query = q,
                   !.result_query = q,
                   !.translate_failed = failed,
                   !.calls = Append(@, Call("translate", 0, 0, 0, <<>>, q, failed)),
                   !.pc = "validate_initial"])

\* the first validation, validation_status, and the entry into the loop
ValidateInitial(s) ==
    LET r == sess[s] IN
    /\ r.pc = "validate_initial"
    /\ \E err \in validate_query(r.sanitized_query) :
         LET valid == (err = NoError) IN
         Set(s, [r EXCEPT
                   !.is_valid = valid,
                   !.error = err,
                   !.validation_attempts = 1,
                   !.validation_status = InitialStatus(r.sanitized_query, valid, err),
                   !.retry_count = 0,
                   !.previous_attempts = <<>>,
                   !.calls = Append(@, Call("validate", r.sanitized_query,
                                            r.sanitized_query, 0, <<>>, err,
                                            err = TransportError)),
                   !.ended = IF valid THEN "valid_first" ELSE "none",
                   !.pc = IF ~valid /\ r.provider /\ LoopContinues(valid, 0)
                          THEN "loop" ELSE "finish"])

\* fix_invalid_query does not raise: its except branch, and the missing-key
\* branch of the Claude provider, return the invalid query as it was given
FixResults(invalid_query, failed) ==
    IF failed THEN {invalid_query} ELSE Candidates

\* the provider whose fix_invalid_query calls no model (OpenAI, Ollama) fixes
\* queries without credentials, the Claude provider cannot
FixMayFail(api_key) == IF api_key THEN MayFail(api_key) ELSE BOOLEAN

\* The rule table seen on the abstract texts: text Matched is one that a rule
\* with a replacement matches, and Rewritten is what suggest_fixes makes of
\* it; no rule matches another text, Rewritten included.
Matched == 1

Rewritten == 2

RuleRewrite(q) == IF q = Matched THEN Rewritten ELSE q

\* the explanation returned with a rule rewrite: the changes, joined
RulesExplanation == -2

\* what one run of fix_invalid_query did and returned: steps lists the
\* repairs it tried, in order ("rules": AQLValidator.suggest_fixes; "model":
\* the request to the model, or the fallback that LLMProvider runs in its
\* place)
Fixed(q, explanation, failed, steps) ==
    [query |-> q, explanation |-> explanation, failed |-> failed, steps |-> steps]

\* LLMProvider.fix_invalid_query: the rules first; their result is returned
\* if it differs from the query, otherwise the fallback runs, which returns
\* the query with some texts of it replaced, or unchanged from its except
\* branch
BaseFix(invalid_query, err) ==
    IF RuleRewrite(invalid_query) # invalid_query
    THEN {Fixed(RuleRewrite(invalid_query), RulesExplanation, FALSE, <<"rules">>)}
    ELSE {Fixed(q, FixExplanation(err), FALSE, <<"rules", "model">>) :
              q \in Queries \cup {invalid_query}}
         \cup {Fixed(invalid_query, FixFailedExplanation, TRUE, <<"rules", "model">>)}

\* ClaudeLLM.fix_invalid_query: without the key the query comes back as it
\* is; with it the model is asked, and the query comes back as it is when
\* the request fails
ClaudeFix(invalid_query, err, api_key) ==
    IF ~api_key
    THEN {Fixed(invalid_query, FixFailedExplanation, TRUE, <<>>)}
    ELSE UNION {{Fixed(q, IF failed THEN FixFailedExplanation ELSE FixExplanation(err),
                       failed, <<"model">>) : q \in FixResults(invalid_query, failed)} :
                   failed \in MayFail(api_key)}

\* the provider left open: all that a fix_invalid_query can return
AnyFix(invalid_query, err, api_key) ==
    UNION {{Fixed(q, IF failed THEN FixFailedExplanation ELSE FixExplanation(err),
                  failed, <<>>) : q \in FixResults(invalid_query, failed)} :
              failed \in FixMayFail(api_key)}

\* current_provider.fix_invalid_query(question, sanitized_query, feedback)
fix_invalid_query(variant, api_key, invalid_query, feedback) ==
    IF variant = "base" THEN BaseFix(invalid_query, feedback.error)
    ELSE IF variant = "claude" THEN ClaudeFix(invalid_query, feedback.error, api_key)
    ELSE AnyFix(invalid_query, feedback.error, api_key)

\* one pass of the while body up to the validation of the fixed query: the
\* status update, the fix call, the recording of the attempt and the test
\* whether the fix is new
Fix(s) ==
    LET r == sess[s] IN
    /\ r.pc = "loop"
    /\ \E fixed_result \in fix_invalid_query(r.variant, r.api_key, r.sanitized_query,
                          Feedback(r.sanitized_query, r.error, r.previous_attempts)) :
         LET n    == r.retry_count + 1
             fb   == Feedback(r.sanitized_query, r.error, r.previous_attempts)
             fixed  == fixed_result.query
             expl   == fixed_result.explanation
             failed == fixed_result.failed
             vs   == LoopTopStatus(r.validation_status, r.validation_attempts, n)
             new  == FixIsNew(fixed, r.sanitized_query)
         IN
         Set(s, [r EXCEPT
                   !.retry_count = n,
                   !.fixed_query = fixed,
                   !.fix_explanation = expl,
                   !.previous_attempts = RecordAttempt(@, n, fixed, expl, r.error),
                   !.calls = Append(@, Call("fix", r.sanitized_query,
                                            r.validation_status.currentQuery,
                                            fb.error, fb.previous_attempts, fixed,
                                            failed)),
                   !.steps = Append(@, fixed_result.steps),
                   !.validation_status =
                       IF new THEN [vs EXCEPT !.currentQuery = fixed]
                              ELSE StallStatus(vs),
                   !.sanitized_query =
                       IF new THEN SanitizedAfterFix(r.site, @, fixed) ELSE @,
                   !.ended = IF new THEN @ ELSE "stall",
                   !.pc = IF new THEN "validate_fix" ELSE "finish"])

\* the validation of the fixed query and the end of the while body
ValidateFix(s) ==
    LET r == sess[s] IN
    /\ r.pc = "validate_fix"
    /\ \E err \in validate_query(IF r.site = "generate_aql" THEN r.sanitized_query
                                                              ELSE r.fixed_query) :
         LET valid == (err = NoError)
             sent  == IF r.site = "generate_aql" THEN r.sanitized_query
                                                 ELSE r.fixed_query
             again == LoopContinues(valid, r.retry_count)
         IN
         Set(s, [r EXCEPT
                   !.is_valid = valid,
                   !.error = err,
                   !.validation_status =
                       AfterFixStatus(@, valid, r.retry_count, err),
                   !.result_query = IF valid THEN r.fixed_query ELSE @,
                   !.validation_fixed = IF valid THEN TRUE ELSE @,
                   !.calls = Append(@, Call("validate", sent,
                                            r.validation_status.currentQuery,
                                            0, <<>>, err, err = TransportError)),
                   !.ended = IF valid THEN "valid_fixed"
                             ELSE IF again THEN @ ELSE "exhausted",
                   !.pc = IF again THEN "loop" ELSE "finish"])

\* the code after the loop, up to the return of the result
Finish(s) ==
    LET r == sess[s] IN
    /\ r.pc = "finish"
    /\ Set(s, [r EXCEPT
                 !.validation_status =
                     FinalStatus(r.site, @, r.is_valid, r.error, r.sanitized_query),
                 !.pc = "returned"])

Step(s) ==
    \/ NoProvider(s)
    \/ Translate(s)
    \/ ValidateInitial(s)
    \/ Fix(s)
    \/ ValidateFix(s)
    \/ Finish(s)

Next == \E s \in Sessions : Step(s)

\* the conditions a request is served under: the provider has its
\* credentials and all calls get through, or the credentials are missing, or
\* the calls to the model may fail, or the calls to the service may fail
Environments ==
    {[api_key |-> TRUE,  network |-> "reliable"],
     [api_key |-> FALSE, network |-> "reliable"],
     [api_key |-> TRUE,  network |-> "translator_fails"],
     [api_key |-> TRUE,  network |-> "validator_fails"]}

\* one request, at either handler
Init ==
    /\ \E site \in Sites, provider \in BOOLEAN, env \in Environments :
         /\ sess = [s \in Sessions |-> IF s = 1 THEN Fresh(site, provider, env.api_key)
                                                 ELSE Idle]
         /\ network = env.network
    /\ validator = AnyValidator
    /\ rewriter = NoRewriter
    /\ prep = NoPrep
    /\ cache = NoCache

Spec == Init /\ [][Next]_vars

\* two requests with credentials, running side by side while the network is
\* up, against a Validator that answers by the text of the query
InitPair ==
    /\ \E f \in [Sessions -> Sites], p \in [Sessions -> BOOLEAN] :
         sess = [s \in Sessions |-> Fresh(f[s], p[s], TRUE)]
    /\ validator \in FixedValidators
    /\ network = "reliable"
    /\ rewriter = NoRewriter
    /\ prep = NoPrep
    /\ cache = NoCache

SpecPair == InitPair /\ [][Next]_vars

\* one request whose provider is known, with its credentials, while the
\* network is up
InitProviders ==
    /\ \E site \in Sites, provider \in BOOLEAN, variant \in Variants :
         sess = [s \in Sessions |->
                    IF s = 1 THEN OfVariant(Fresh(site, provider, TRUE), variant)
                             ELSE Idle]
    /\ validator = AnyValidator
    /\ network = "reliable"
    /\ rewriter = NoRewriter
    /\ prep = NoPrep
    /\ cache = NoCache

SpecProviders == InitProviders /\ [][Next]_vars

\* ---- the rewriter on its own ----------------------------------------------
\* suggest_fixes is called on the text
SuggestFixes ==
    /\ rewriter.pc = "ready"
    /\ \E d \in ErrorDetails :
         rewriter' = [rewriter EXCEPT !.runs = <<Run(rewriter.query, d)>>,
                                      !.pc = "fixed"]
    /\ UNCHANGED <<sess, validator, network, prep, cache>>

\* suggest_fixes is called on the query it returned
SuggestFixesAgain ==
    /\ rewriter.pc = "fixed"
    /\ \E d \in ErrorDetails :
         rewriter' = [rewriter EXCEPT !.runs = Append(@, Run(rewriter.runs[1].fixed, d)),
                                      !.pc = "done"]
    /\ UNCHANGED <<sess, validator, network, prep, cache>>

NextRewrite == SuggestFixes \/ SuggestFixesAgain

InitRewrite ==
    /\ sess = [s \in Sessions |-> Idle]
    /\ validator = AnyValidator
    /\ network = "reliable"
    /\ rewriter \in {[NoRewriter EXCEPT !.pc = "ready", !.query = q] : q \in Texts}
    /\ prep = NoPrep
    /\ cache = NoCache

SpecRewrite == InitRewrite /\ [][NextRewrite]_vars

\* ---- the preprocessor on its own -------------------------------------------
PrepDone(run) ==
    /\ prep.pc = "ready"
    /\ prep' = [prep EXCEPT !.runs = <<run>>, !.pc = "done"]
    /\ UNCHANGED <<sess, validator, network, rewriter, cache>>

\* api_client.validate_query(query): the text is preprocessed and sent
ValidateQueryText ==
    PrepDone(PrepRun("validate_query", prep.query, prep.query, prep.today))

\* api_client.execute_query(query): limit clause, then preprocess_query
ExecuteQueryText ==
    PrepDone(PrepRun("execute_query", prep.query, ExecuteLimit(prep.query),
                     prep.today))

\* analyze_query_results: its limit clause, then api_client.execute_query
AnalyzeQueryText ==
    PrepDone(PrepRun("analyze_query_results", prep.query,
                     ExecuteLimit(AnalyzeLimit(prep.query)), prep.today))

NextPrep == ValidateQueryText \/ ExecuteQueryText \/ AnalyzeQueryText

InitPrep ==
    /\ sess = [s \in Sessions |-> Idle]
    /\ validator = AnyValidator
    /\ network = "reliable"
    /\ rewriter = NoRewriter
    /\ prep \in {[NoPrep EXCEPT !.pc = "ready", !.query = q, !.today = d] :
                    q \in PrepTexts, d \in Todays}
    /\ cache = NoCache

SpecPrep == InitPrep /\ [][NextPrep]_vars

\* ---- the cache on its own ---------------------------------------------------
\* OpenAILLM.translate_to_aql(question) of a provider with a key and a
\* db_store: the lookup, and on a miss the call to the model, whose result
\* is given to cache_query_result and returned
TranslateQuestion(key) ==
    /\ Len(cache.requests) < MaxRequests
    /\ \E answer \in Queries :
         LET cached_result == get_cached_query_result(cache.entries, key, cache.now)
             hit == cached_result # NoTranslation
         IN cache' =
              [cache EXCEPT
                 !.entries = IF hit THEN @
                             ELSE cache_query_result(@, key, answer, expiry_minutes,
                                                     cache.now),
                 !.requests = Append(@, [key |-> key, at |-> cache.now, hit |-> hit,
                                         result |-> IF hit THEN cached_result
                                                           ELSE answer])]
    /\ UNCHANGED <<sess, validator, network, rewriter, prep>>

\* half of the time to live passes
Tick ==
    /\ cache.ticks < MaxTicks
    /\ cache' = [cache EXCEPT !.ticks = @ + 1, !.now = @ + (expiry_minutes \div 2)]
    /\ UNCHANGED <<sess, validator, network, rewriter, prep>>

NextCache == (\E key \in CacheKeys : TranslateQuestion(key)) \/ Tick

InitCache ==
    /\ sess = [s \in Sessions |-> Idle]
    /\ validator = AnyValidator
    /\ network = "reliable"
    /\ rewriter = NoRewriter
    /\ prep = NoPrep
    /\ cache = NoCache

SpecCache == InitCache /\ [][NextCache]_vars

\* ---- what a session shows ------------------------------------------------
Returned(s) == sess[s].pc = "returned"

\* the feedback history of the session
Attempts(s) == sess[s].previous_attempts

Status(s) == sess[s].validation_status.status

Message(s) == sess[s].validation_status.message

CurrentQuery(s) == sess[s].validation_status.currentQuery

OriginalQuery(s) == sess[s].validation_status.originalQuery

\* the positions of the fix calls and of the validate calls in the call log
FixCalls(s) == {i \in DOMAIN sess[s].calls : sess[s].calls[i].op = "fix"}

ValidateCalls(s) == {i \in DOMAIN sess[s].calls : sess[s].calls[i].op = "validate"}

Max(S) == CHOOSE x \in S : \A y \in S : y <= x

\* the outcome of the last validation the session made
LastOutcome(s) == sess[s].calls[Max(ValidateCalls(s))].ret

\* the first validation rejected the translated query
InitialInvalid(s) ==
    /\ ValidateCalls(s) # {}
    /\ LET first == CHOOSE i \in ValidateCalls(s) : \A j \in ValidateCalls(s) : i <= j
       IN sess[s].calls[first].ret # NoError

\* the number of fix calls among the first i calls of the session
FixCallsUpTo(s, i) == Cardinality({j \in FixCalls(s) : j <= i})

\* the translate call, or the first validate call, ran into its failure branch
\* although the credentials were there
InitialFailure(s) ==
    \/ sess[s].api_key /\ sess[s].translate_failed
    \/ \E i \in ValidateCalls(s) : FixCallsUpTo(s, i) = 0 /\ sess[s].calls[i].failed

\* the place in the log of the k-th call of fix_invalid_query
NthFixCall(s, k) == CHOOSE i \in FixCalls(s) : FixCallsUpTo(s, i) = k

\* the passes of the loop in which the rules gave the fixed query
RulePasses(s) == {k \in DOMAIN sess[s].steps : sess[s].steps[k] = <<"rules">>}

\* the last validation made before call i of the log
LastValidateBefore(s, i) == Max({j \in ValidateCalls(s) : j < i})

\* what the collaborators answered to a session, call by call
Responses(s) ==
    [i \in DOMAIN sess[s].calls |->
        [op |-> sess[s].calls[i].op, ret |-> sess[s].calls[i].ret,
         failed |-> sess[s].calls[i].failed]]

\* what a session passed to the collaborators, call by call
Arguments(s) ==
    [i \in DOMAIN sess[s].calls |->
        [op |-> sess[s].calls[i].op, q |-> sess[s].calls[i].q,
         err |-> sess[s].calls[i].err, prev |-> sess[s].calls[i].prev]]

\* ---- C1 -----------------------------------------------------------------
\* C1: in every reachable state the number of recorded repair attempts (the
\* feedback history), and the attempts count shown in the validation status,
\* is at most maxAttempts, whatever the Validator and the Translator answer.
C1_AttemptsBounded ==
    \A s \in Sessions :
        /\ Len(Attempts(s)) <= maxAttempts
        /\ sess[s].validation_status.attempts <= maxAttempts

\* a session whose history holds maxAttempts attempts
C1_Witness ==
    \E s \in Sessions : Len(Attempts(s)) = maxAttempts

\* ---- C2 -----------------------------------------------------------------
\* the external calls and handler steps a session has still to make, at most
Rank(s) ==
    CASE sess[s].pc = "start"            -> (2 * max_retries) + 4
      [] sess[s].pc = "validate_initial" -> (2 * max_retries) + 3
      [] sess[s].pc = "loop"             -> (2 * (max_retries - sess[s].retry_count)) + 2
      [] sess[s].pc = "validate_fix"     -> (2 * (max_retries - sess[s].retry_count)) + 3
      [] sess[s].pc = "finish"           -> 1
      [] OTHER                           -> 0

\* C2: every session terminates: whatever the Validator and the Translator
\* answer, a handler that has not returned can always take its next step,
\* every step brings it nearer to its return, and the loop makes at most
\* max_retries passes (at most max_retries fix calls).
C2_Terminates ==
    /\ [](\A s \in Sessions :
            /\ sess[s].pc \in {"idle", "returned", "error"} \/ ENABLED Step(s)
            /\ Rank(s) >= 0
            /\ sess[s].retry_count <= max_retries
            /\ Cardinality(FixCalls(s)) <= max_retries)
    /\ [][\A s \in Sessions : sess'[s] # sess[s] => Rank(s)' < Rank(s)]_vars

\* a session that returned after running the loop max_retries times
C2_Witness ==
    \E s \in Sessions :
        Returned(s) /\ Cardinality(FixCalls(s)) = max_retries

\* ---- C3 -----------------------------------------------------------------
\* C3: the status of a returned session is terminal and follows the last
\* validation outcome: "valid" if the Validator accepted the last query sent,
\* "failed" otherwise; never "fixing" or "invalid".
C3_ReturnedStatusTerminal ==
    \A s \in Sessions :
        Returned(s) =>
            Status(s) = IF LastOutcome(s) = NoError THEN "valid" ELSE "failed"

\* ---- C4 -----------------------------------------------------------------
\* C4: in every reachable state of a session, currentQuery is the candidate
\* of the last recorded attempt when an attempt has been recorded, and
\* originalQuery when none has.
C4_CurrentQueryIsLastCandidate ==
    \A s \in Sessions :
        Status(s) # "none" =>
            CurrentQuery(s) =
                IF Attempts(s) = <<>> THEN OriginalQuery(s)
                ELSE Attempts(s)[Len(Attempts(s))].query

\* ---- C5 -----------------------------------------------------------------
\* C5: a fix call that returns the session's currentQuery ends the session:
\* it is the last call the session makes (the candidate is not validated and
\* no further fix call follows) and the session is returned as "failed".
C5_StallEndsSession ==
    \A s \in Sessions :
        \A i \in FixCalls(s) :
            sess[s].calls[i].ret = sess[s].calls[i].cur =>
                /\ i = Len(sess[s].calls)
                /\ sess[s].pc \in {"finish", "returned"}
                /\ Returned(s) => Status(s) = "failed"

C7_SameQueryStallsAtOne ==
    \A s \in Sessions :
        ( /\ Returned(s)
          /\ InitialInvalid(s)
          /\ \A i \in FixCalls(s) : sess[s].calls[i].ret = sess[s].calls[i].q )
        => /\ Status(s) = "failed"
           /\ sess[s].ended = "stall"
           /\ Len(Attempts(s)) = 1

\* ---- C8 -----------------------------------------------------------------
\* C8: when the first validation fails and the k-th fix candidate is the
\* first the Validator accepts, the session is returned "valid" with k
\* recorded attempts, and currentQuery (and the query of the result) is that
\* candidate, which is the query the Validator accepted.
C8_AcceptedCandidate ==
    \A s \in Sessions :
        ( Returned(s) /\ InitialInvalid(s) /\ LastOutcome(s) = NoError )
        => LET k    == Cardinality(FixCalls(s))
               n    == Len(sess[s].calls)
               cand == sess[s].calls[n - 1].ret
           IN /\ k >= 1 /\ k <= maxAttempts
              /\ sess[s].calls[n - 1].op = "fix"
              /\ sess[s].calls[n].q = cand
              /\ \A i \in ValidateCalls(s) : i < n => sess[s].calls[i].ret # NoError
              /\ Status(s) = "valid"
              /\ Len(Attempts(s)) = k
              /\ Attempts(s)[k].query = cand
              /\ CurrentQuery(s) = cand
              /\ sess[s].result_query = cand

\* a session whose second candidate was the first accepted
C8_Witness ==
    \E s \in Sessions :
        /\ Returned(s) /\ InitialInvalid(s) /\ LastOutcome(s) = NoError
        /\ Cardinality(FixCalls(s)) = 2

C10_StallAndExhaustionDiffer ==
    \A s \in Sessions, t \in Sessions :
        ( /\ Returned(s) /\ sess[s].ended = "stall"
          /\ Returned(t) /\ sess[t].ended = "exhausted" )
        => /\ Status(s) = "failed"
           /\ Status(t) = "failed"
           /\ Message(s) # Message(t)

\* ---- C11 ----------------------------------------------------------------
\* C11: a request that finds no provider, or a provider without credentials,
\* fails at once: it makes no Validator call and no fix call, and never gets
\* beyond its start.
C11_NoTranslatorFailsAtOnce ==
    \A s \in Sessions :
        ( sess[s].pc # "idle" /\ (~sess[s].provider \/ ~sess[s].api_key) )
        => /\ ValidateCalls(s) = {}
           /\ FixCalls(s) = {}
           /\ sess[s].pc \in {"start", "error"}

\* ---- C12 ----------------------------------------------------------------
\* C12: a validate call of the repair loop that fails in transport returns
\* the transport error as the error of an invalid outcome: the session holds
\* that error and is not valid, the history holds one attempt for each pass
\* made so far, and the loop goes on (its next call is a fix call that is
\* given the transport error) unless the pass was the last permitted one, in
\* which case the session ends by exhaustion; the handler does not abort.
C12_ValidatorFailureIsInvalidOutcome ==
    \A s \in Sessions :
        \A i \in ValidateCalls(s) :
            LET c == sess[s].calls[i]
                k == FixCallsUpTo(s, i)
            IN (c.failed /\ k >= 1) =>
                 /\ c.ret = TransportError
                 /\ sess[s].pc # "error"
                 /\ Len(Attempts(s)) >= k
                 /\ IF i = Len(sess[s].calls)
                    THEN /\ ~sess[s].is_valid
                         /\ sess[s].error = TransportError
                         /\ Len(Attempts(s)) = k
                         /\ k < max_retries =>
                              /\ sess[s].pc = "loop"
                              /\ Status(s) = "invalid"
                              /\ Message(s) = MsgFixFailed(k, TransportError)
                         /\ k = max_retries =>
                              /\ sess[s].pc \in {"finish", "returned"}
                              /\ sess[s].ended = "exhausted"
                    ELSE /\ sess[s].calls[i + 1].op = "fix"
                         /\ sess[s].calls[i + 1].err = TransportError
                         /\ Len(sess[s].calls[i + 1].prev) = k

\* a session whose first re-validation failed in transport and whose second
\* candidate was accepted
C12_Witness ==
    \E s \in Sessions :
        /\ Returned(s) /\ Status(s) = "valid"
        /\ Len(sess[s].calls) = 6
        /\ sess[s].calls[4].op = "validate" /\ sess[s].calls[4].failed

\* ---- C13 ----------------------------------------------------------------
\* C13: a fix call that fails does not end the session: while passes remain,
\* the session goes on after it.
C13_FailedRepairDoesNotEndSession ==
    \A s \in Sessions :
        \A i \in FixCalls(s) :
            ( sess[s].calls[i].failed /\ FixCallsUpTo(s, i) < max_retries )
            => ~( i = Len(sess[s].calls) /\ sess[s].pc \in {"finish", "returned"} )

\* ---- C14 ----------------------------------------------------------------
\* C14: after a failure of the translate call or of the first validate call
\* the handler runs no pass of the repair loop and returns no result: it
\* makes no fix call.
C14_InitialFailureIsHard ==
    \A s \in Sessions :
        InitialFailure(s) =>
            /\ FixCalls(s) = {}
            /\ sess[s].pc \notin {"loop", "validate_fix", "returned"}

\* ---- C15 ----------------------------------------------------------------
\* C15: suggest_fixes applied to a query that suggest_fixes returned, with no
\* error details, returns that query as it is, with the explanation "No
\* automatic fixes could be applied" (no change recorded); with whatever
\* error details, it returns that query as it is.
C15_RewriteIdempotent ==
    Len(rewriter.runs) = 2 =>
        /\ rewriter.runs[2].query = rewriter.runs[1].fixed
        /\ rewriter.runs[2].fixed = rewriter.runs[2].query
        /\ rewriter.runs[2].error_details = "none" =>
               rewriter.runs[2].explanation = NoAutomaticFixes

\* a text that the first call rewrote and a second call without error details
C15_Witness ==
    /\ Len(rewriter.runs) = 2
    /\ rewriter.runs[1].fixed # rewriter.runs[1].query
    /\ rewriter.runs[2].error_details = "none"

\* ---- C16 ----------------------------------------------------------------
\* C16: whenever suggest_fixes returns the query it was given, it returns no
\* change description, whatever error details it was given.
C16_UnchangedMeansNoChanges ==
    \A i \in DOMAIN rewriter.runs :
        rewriter.runs[i].fixed = rewriter.runs[i].query =>
            rewriter.runs[i].explanation = NoAutomaticFixes

\* ---- C17 ----------------------------------------------------------------
\* C17: when a query of several statements with no limit clause is given to
\* execute_query or to analyze_query_results, the default limit clause is
\* appended to its last statement that is not blank: the statements are as
\* many as before, and all the others are as they were.
C17_LimitOnLastStatementOnly ==
    \A i \in DOMAIN prep.runs :
        LET r      == prep.runs[i]
            before == Split(r.query)
            after  == Split(r.limited)
            last   == LastStatementIndex(before)
            clause == IF r.op = "execute_query" THEN "LIMIT 25000" ELSE "LIMIT 100"
        IN ( /\ r.op \in {"execute_query", "analyze_query_results"}
             /\ Contains(r.query, ";")
             /\ ~HasLimitClause(r.query)
             /\ last # 0 )
           => /\ Len(after) = Len(before)
              /\ \A j \in DOMAIN before :
                    after[j] = IF j = last THEN before[j] \o <<" ", clause>>
                               ELSE before[j]

\* ---- C18 ----------------------------------------------------------------
\* what datetime gives for the day 2025-01-10 less the days of each variable
DatesBefore2025_01_10 ==
    [name \in DateVariableNames |->
        CASE name = "{{TODAY}}"               -> "2025-01-10"
          [] name = "{{DATE_MINUS_30_DAYS}}"  -> "2024-12-11"
          [] name = "{{DATE_MINUS_90_DAYS}}"  -> "2024-10-12"
          [] name = "{{DATE_MINUS_6_MONTHS}}" -> "2024-07-12"
          [] name = "{{DATE_MINUS_1_YEAR}}"   -> "2024-01-11"
          [] name = "{{DATE_MINUS_2_YEARS}}"  -> "2023-01-11"
          [] name = "{{DATE_MINUS_3_YEARS}}"  -> "2022-01-11"
          [] name = "{{DATE_MINUS_5_YEARS}}"  -> "2020-01-12"
          [] name = "{{DATE_MINUS_7_YEARS}}"  -> "2018-01-12"
          [] name = "{{DATE_MINUS_10_YEARS}}" -> "2015-01-13"]

C20_ProgressMonotone ==
    [][\A s \in Sessions :
         sess'[s].validation_status.progress >= sess[s].validation_status.progress]_vars

\* a session that went through two passes of the loop and reached progress 90
C20_Witness ==
    \E s \in Sessions :
        /\ sess[s].validation_status.progress = 90
        /\ sess[s].retry_count = 2
        /\ Len(Attempts(s)) = 2

\* ---- C21 ----------------------------------------------------------------
\* C21: in every pass of the repair loop the rules are applied to the query
\* before any repair by the model, and the model repairs in that pass only if
\* the rules left the query unchanged (or the rewritten query was still
\* invalid, which takes a validation between the two), whichever provider is
\* active.
C21_RulesBeforeModel ==
    \A s \in Sessions :
      sess[s].variant \in Variants =>
        \A k \in DOMAIN sess[s].steps :
          LET st == sess[s].steps[k]
              q  == sess[s].calls[NthFixCall(s, k)].q
          IN  \A i \in DOMAIN st :
                st[i] = "model" =>
                  /\ \E j \in 1..(i - 1) : st[j] = "rules"
                  /\ RuleRewrite(q) = q

\* ---- C22 ----------------------------------------------------------------
\* C22: within one session the rules produce a candidate at most once: after
\* the first rule-based fix every later pass repairs by the model alone, so
\* the same rewrite is never validated twice in a session.
C22_RulesOnlyOnce ==
    \A s \in Sessions :
      sess[s].variant \in Variants =>
        /\ Cardinality(RulePasses(s)) <= 1
        /\ \A k \in RulePasses(s) : \A m \in DOMAIN sess[s].steps :
              m > k => \A i \in DOMAIN sess[s].steps[m] : sess[s].steps[m][i] # "rules"
        /\ \A k \in RulePasses(s) :
              Cardinality({i \in ValidateCalls(s) :
                  /\ i > NthFixCall(s, k)
                  /\ sess[s].calls[i].q = sess[s].calls[NthFixCall(s, k)].ret}) <= 1

\* ---- C23 ----------------------------------------------------------------
\* C23: on the k-th repair call of a session the feedback's previous_attempts
\* is the list of the k-1 attempts recorded so far, in their order and as
\* they were recorded (empty on the first call).
C23_FullHistoryPassed ==
    \A s \in Sessions :
      \A k \in 1..Cardinality(FixCalls(s)) :
        LET c == sess[s].calls[NthFixCall(s, k)] IN
        /\ Len(c.prev) = k - 1
        /\ c.prev = SubSeq(sess[s].previous_attempts, 1, k - 1)
        /\ \A j \in 1..(k - 1) :
              /\ c.prev[j].attempt = j
              /\ c.prev[j].query = sess[s].calls[NthFixCall(s, j)].ret

C23_Witness ==
    \E s \in Sessions :
      /\ Cardinality(FixCalls(s)) >= 3
      /\ LET c == sess[s].calls[NthFixCall(s, 3)] IN
         /\ Len(c.prev) = 2
         /\ c.prev[1].query # c.prev[2].query

\* ---- C24 ----------------------------------------------------------------
\* C24: every repair call is given the session's currentQuery as the invalid
\* query, and the error the Validator returned for that same query.
C24_FixGetsCurrentQuery ==
    \A s \in Sessions :
      \A i \in FixCalls(s) :
        LET c == sess[s].calls[i]
            v == sess[s].calls[LastValidateBefore(s, i)]
        IN  /\ c.q = c.cur
            /\ v.q = c.q
            /\ c.err = v.ret

\* ---- C25 ----------------------------------------------------------------
\* C25: the error recorded in attempt k is the one the Validator returned
\* for the query of attempt k, not the one that rejected the query before it.
C25_AttemptHoldsOwnOutcome ==
    \A s \in Sessions :
      \A k \in DOMAIN sess[s].previous_attempts :
        LET i == NthFixCall(s, k) IN
        (i + 1) \in ValidateCalls(s) =>
            sess[s].previous_attempts[k].error = sess[s].calls[i + 1].ret

\* ---- C27 ----------------------------------------------------------------
\* C27: each pass of the loop makes one repair call and at most one
\* validation, and no call is repeated after a failure of the transport; so
\* a session makes at most maxAttempts repair calls and at most
\* 1 + maxAttempts validations, and no call after a validation that accepted
\* the query.
C27_OneCallEachPerPass ==
    \A s \in Sessions :
      LET calls == sess[s].calls IN
      /\ Cardinality(FixCalls(s)) <= maxAttempts
      /\ Cardinality(ValidateCalls(s)) <= 1 + maxAttempts
      /\ Cardinality(FixCalls(s)) = sess[s].retry_count
      /\ \A i \in DOMAIN calls :
            /\ calls[i].op = "fix" =>
                  /\ i > 1
                  /\ calls[i - 1].op = "validate"
                  /\ calls[i - 1].ret # NoError
            /\ calls[i].op = "validate" =>
                  /\ i > 1
                  /\ calls[i - 1].op \in {"translate", "fix"}
                  /\ calls[i].ret = NoError => i = Len(calls)

C27_Witness ==
    \E s \in Sessions :
      /\ Cardinality(FixCalls(s)) = maxAttempts
      /\ Cardinality(ValidateCalls(s)) = 1 + maxAttempts
      /\ \E i \in ValidateCalls(s) : sess[s].calls[i].failed

\* ---- C28 ----------------------------------------------------------------
\* C28: sessions running side by side are independent.  A step of one
\* session changes nothing of another and writes neither to the translation
\* cache nor to the rewriter; and what a session has recorded and shows is
\* determined by its handler and by the answers it got, however its steps
\* were interleaved with the other's and wherever the other stopped.
C28_SessionsIndependent ==
    /\ [](\A s, t \in Sessions :
            ( /\ sess[s].site = sess[t].site
              /\ Responses(s) = Responses(t) )
            => /\ Attempts(s) = Attempts(t)
               /\ CurrentQuery(s) = CurrentQuery(t)
               /\ (Returned(s) /\ Returned(t)) => Status(s) = Status(t))
    /\ [][\A s \in Sessions :
            sess'[s] # sess[s] =>
              /\ \A t \in Sessions \ {s} : sess'[t] = sess[t]
              /\ cache' = cache
              /\ rewriter' = rewriter
              /\ validator' = validator]_vars

C28_Witness ==
    /\ sess[1].pc = "loop"
    /\ sess[1].retry_count >= 1
    /\ Returned(2)
    /\ Attempts(2) # <<>>
    /\ Attempts(1) # SubSeq(Attempts(2), 1, Len(Attempts(1)))

\* ---- C29 ----------------------------------------------------------------
\* C29: when a session ends with the status valid, the query it returns is
\* the text of its last validation, which the Validator accepted; and a
\* fixed query stands in the result in place of the translated one only if
\* the Validator accepted that text.
C29_ValidMeansAccepted ==
    \A s \in Sessions :
      Returned(s) =>
        /\ Status(s) = "valid" =>
              /\ ValidateCalls(s) # {}
              /\ Max(ValidateCalls(s)) = Len(sess[s].calls)
              /\ LastOutcome(s) = NoError
              /\ sess[s].calls[Max(ValidateCalls(s))].q = sess[s].result_query
        /\ (sess[s].validation_fixed \/ sess[s].result_query # sess[s].query) =>
              \E i \in ValidateCalls(s) :
                /\ sess[s].calls[i].q = sess[s].result_query
                /\ sess[s].calls[i].ret = NoError

C29_Witness ==
    \E s \in Sessions :
      /\ Returned(s)
      /\ Status(s) = "valid"
      /\ sess[s].site = "generate_aql"
      /\ sess[s].validation_fixed
      /\ sess[s].result_query # sess[s].query
      /\ Cardinality(FixCalls(s)) >= 2

\* ---- C30 ----------------------------------------------------------------
\* C30: the handler of /query and the handler of /generate_aql, given the
\* same answers by the Translator and the Validator, make the same calls with
\* the same arguments and end with the same status, currentQuery and
\* recorded attempts.
C30_CallSitesEquivalent ==
    \A s, t \in Sessions :
      ( /\ Returned(s) /\ Returned(t)
        /\ sess[s].site = "query"
        /\ sess[t].site = "generate_aql"
        /\ Responses(s) = Responses(t) )
      => /\ Arguments(s) = Arguments(t)
         /\ Status(s) = Status(t)
         /\ CurrentQuery(s) = CurrentQuery(t)
         /\ Attempts(s) = Attempts(t)

\* ---- C26 ----------------------------------------------------------------
\* C26: the text validate_query sends to the Validator has had both
\* transforms applied, the dates replaced and then the limit clause added,
\* and it is the text execute_query sends for the same query.
C26_ValidatorSeesPreprocessedText ==
    \A i \in DOMAIN prep.runs :
        LET r == prep.runs[i] IN
        r.op = "validate_query" =>
            /\ r.preprocessed_query =
                   ExecuteLimit(preprocess_query(r.query, prep.today))
            /\ r.preprocessed_query =
                   PrepRun("execute_query", r.query, ExecuteLimit(r.query),
                           prep.today).preprocessed_query

====
